---- MODULE Spec2Model ----
(***************************************************************************)
(* A model of antig (src/src/main.rs): a cp-like command line tool.  The   *)
(* main thread creates the destination, starts one detached counter thread *)
(* per directory source (progress enabled), and then copies every source:  *)
(* a plain file with fs::copy, a directory with copy_directory_recursive,  *)
(* which walks the tree with visit_dir and mirrors it under the            *)
(* destination.                                                            *)
(*                                                                         *)
(* The filesystem is a set of directories and a map from file paths to     *)
(* byte contents; there are no symbolic links, so the canonical form of a  *)
(* path is the path resolved against the working directory.  A path as the *)
(* program holds it (a String / PathBuf) is a record [abs, segs]: whether  *)
(* it starts with "/" and its normal components; "." is [FALSE, <<>>].     *)
(***************************************************************************)
EXTENDS Integers, Sequences, FiniteSets, TLC

VARIABLES
    dirs,              \* filesystem: the set of directories (absolute paths)
    files,             \* filesystem: file path |-> byte content
    command,           \* Command: sources, destination, recursive, no_progress_bar
    pc,                \* main thread: "start", "count", "loop", "walk", "copy"
                       \* (in the file visitor, before fs::copy), "err" (an Err
                       \* is on its way out of main), "done";
                       \* "call" when visit_dir is exercised on its own
    idx,               \* main thread: index of the source the loop is at
    stack,             \* main thread: the visit_dir::<true> recursion, with the
                       \* call of the file visitor on top while pc = "copy"
    make_destination,  \* copy_directory_recursive's local of that name
    result,            \* what main returned: "running", "Ok", or the error
    dir_content_size,  \* the shared AtomicU64 (far from 2^64 in every run here)
    bar,               \* the ProgressBar: [pos, len]
    ctr,               \* the counter threads, one slot per source
    ops,               \* history: the filesystem writes of the main thread
    visits,            \* history: the entries visit_dir handed on or entered
    lastCall,          \* history: the source whose directory copy just returned Ok
    before,            \* history: the filesystem when the copy of the current source began
    argv,              \* the command line as given
    run                \* how many times the program was started

vars == <<dirs, files, command, pc, idx, stack, make_destination, result,
          dir_content_size, bar, ctr, ops, visits, lastCall, before, argv, run>>

-----------------------------------------------------------------------------
(* Bounds of the model.                                                    *)

\* File bytes are drawn from 1..MaxByte.
MaxByte == 2

\* A file of the initial filesystem holds at most MaxLen bytes.
MaxLen == 1

\* The command line names at most MaxSources sources.
MaxSources == 2

\* The program is run at most MaxRuns times on the same filesystem.
MaxRuns == 2

-----------------------------------------------------------------------------
(* Paths: std::path.                                                       *)

\* The working directory of the process: the root directory.
Cwd == <<>>

P(abs, segs) == [abs |-> abs, segs |-> segs]

Abs(segs) == P(TRUE, segs)

Rel(segs) == P(FALSE, segs)

\* The string "." .
DotPath == Rel(<<>>)

Front(s) == SubSeq(s, 1, Len(s) - 1)

Last(s) == s[Len(s)]

IsPrefix(p, q) == Len(p) <= Len(q) /\ SubSeq(q, 1, Len(p)) = p

\* The absolute, symlink-free location a path names.
Resolve(p) == IF p.abs THEN p.segs ELSE Cwd \o p.segs

\* PathBuf::join: an absolute argument replaces the receiver.
Join(p, q) == IF q.abs THEN q ELSE P(p.abs, p.segs \o q.segs)

\* Path::parent().unwrap_or(Path::new("/")): the parent of "a" and of "." is
\* "", and "/" has none.
ParentOrRoot(p) ==
    IF p.segs = <<>> THEN (IF p.abs THEN Abs(<<>>) ELSE Rel(<<>>))
    ELSE P(p.abs, Front(p.segs))

\* Path::strip_prefix(base).unwrap(), for a base that is a prefix of p.
StripPrefix(p, base) == Rel(SubSeq(p.segs, Len(base.segs) + 1, Len(p.segs)))

\* Path::file_name().unwrap(), for a path with a last component.
FileName(p) == Rel(<<Last(p.segs)>>)

-----------------------------------------------------------------------------
(* The filesystem: std::fs on a record [dirs, files]; paths are absolute.  *)

FS(d, f) == [dirs |-> d, files |-> f]

Nodes(fs) == fs.dirs \cup DOMAIN fs.files

Exists(fs, a) == a \in Nodes(fs)

IsDir(fs, a) == a \in fs.dirs

IsFile(fs, a) == a \in DOMAIN fs.files

\* The names fs::read_dir yields for directory a.
Children(fs, a) ==
    {q[Len(q)] : q \in {r \in Nodes(fs) : Len(r) = Len(a) + 1 /\ IsPrefix(a, r)}}

\* Metadata::len.
FileLen(fs, a) == Len(fs.files[a])

\* The lookup of a path: "Ok" when it exists; the io::ErrorKind otherwise:
\* NotADirectory (ENOTDIR) when a component above it is a plain file, NotFound
\* (ENOENT) when nothing is there.
LookupKind(fs, a) ==
    IF Exists(fs, a) THEN "Ok"
    ELSE IF \E k \in 0..(Len(a) - 1) : IsFile(fs, SubSeq(a, 1, k)) THEN "NotADirectory"
    ELSE "NotFound"

\* fs::create_dir: the io::ErrorKind, or "Ok".
CreateDirKind(fs, a) ==
    IF Exists(fs, a) THEN "AlreadyExists"
    ELSE IF LookupKind(fs, Front(a)) # "Ok" THEN LookupKind(fs, Front(a))
    ELSE IF ~IsDir(fs, Front(a)) THEN "NotADirectory"
    ELSE "Ok"

CreateDir(fs, a) == FS(fs.dirs \cup {a}, fs.files)

\* fs::copy: the io::ErrorKind, or "Ok".  The target is opened with
\* create + truncate, so an existing file is overwritten and is no error.
CopyKind(fs, from, to) ==
    IF LookupKind(fs, from) # "Ok" THEN LookupKind(fs, from)
    ELSE IF IsDir(fs, from) THEN "InvalidInput"
    ELSE IF IsDir(fs, to) THEN "IsADirectory"
    ELSE IF LookupKind(fs, Front(to)) # "Ok" THEN LookupKind(fs, Front(to))
    ELSE IF ~IsDir(fs, Front(to)) THEN "NotADirectory"
    ELSE "Ok"

\* fs::copy's effect: the target is truncated when it is opened, before the
\* first byte is read, so a file copied onto itself ends up empty.
CopyFile(fs, from, to) ==
    FS(fs.dirs,
       [a \in DOMAIN fs.files \cup {to} |->
           IF a = to THEN (IF from = to THEN <<>> ELSE fs.files[from])
           ELSE fs.files[a]])

\* What an fs::copy that fails after it opened its target leaves behind: the
\* target was opened with create + truncate and holds the first n bytes of
\* the source.
CopyPartial(fs, from, to, n) ==
    FS(fs.dirs,
       [a \in DOMAIN fs.files \cup {to} |->
           IF a = to THEN (IF from = to THEN <<>> ELSE SubSeq(fs.files[from], 1, n))
           ELSE fs.files[a]])

\* The filesystems an fs::copy leaves when it returns Err after it opened its
\* target (an I/O error, a full disk, a file size limit): the target created
\* empty, truncated, written in part, or written in full when the error comes
\* with the last request of the copy loop.
FailedCopyWrites(fs, from, to) ==
    IF CopyKind(fs, from, to) = "Ok"
    THEN {CopyPartial(fs, from, to, n) : n \in 0..FileLen(fs, from)}
    ELSE {}

\* The filesystems an fs::copy can leave when it returns Err for a reason
\* outside the model: the filesystem untouched, when the source or the target
\* could not be opened (a missing permission), or one of FailedCopyWrites.
FailedCopyOutcomes(fs, from, to) == {fs} \cup FailedCopyWrites(fs, from, to)

\* fs::remove_file.
RemoveFile(fs, a) == FS(fs.dirs, [b \in DOMAIN fs.files \ {a} |-> fs.files[b]])

\* One filesystem write of the main thread, as the history records it.
Op(op, by, from, to) == [op |-> op, by |-> by, from |-> from, to |-> to]

-----------------------------------------------------------------------------
(* visit_dir: the tree walker.  A call is a frame of the recursion: the     *)
(* directory as the caller named it, the names already taken from the       *)
(* listing, and the names the directory held when read_dir opened it.  The  *)
(* order of a listing is unspecified, and so is whether it yields a name    *)
(* that was created after the directory was opened.                         *)

Frame(fs, d) == [dir |-> d, seen |-> {}, snap |-> Children(fs, Resolve(d))]

\* Mutant of Call: the root is listed without the is_dir test.
CallAlways(fs, stk, d) == Append(stk, Frame(fs, d))

\* The call f(&entry) of the file visitor, on top of the visit_dir calls: it
\* holds the entry's path and lists nothing.
VisitorCall(path) == [dir |-> path, seen |-> {}, snap |-> {}]

\* A call visit_dir(d, ..): a directory is listed, anything else is a no-op.
Call(fs, stk, d) == IF IsDir(fs, Resolve(d)) THEN Append(stk, Frame(fs, d)) ELSE stk

Top(stk) == stk[Len(stk)]

\* The frame with one more name taken from its listing.
Taken(stk, n) == [stk EXCEPT ![Len(stk)].seen = @ \cup {n}]

\* The names the listing of the top frame can yield next.
Pending(fs, stk) == Children(fs, Resolve(Top(stk).dir)) \ Top(stk).seen

\* The listing of the top frame can end: every name it opened with is taken.
Exhausted(fs, stk) ==
    (Top(stk).snap \cap Children(fs, Resolve(Top(stk).dir))) \subseteq Top(stk).seen

\* Mutant of IsExcluded: no entry is excluded from the walk.
IsExcludedNever(path, destination) == FALSE

\* Mutant of IsExcluded: the paths are compared as given, not canonicalized.
IsExcludedAsGiven(path, destination) == path = destination

\* The child's canonical path equals the destination's.
IsExcluded(path, destination) == Resolve(path) = Resolve(destination)

\* What visit_dir does with the entry `path`: "err" (a canonicalize failed),
\* "skip" (the destination), "dir" or "file".
EntryClass(fs, path, destination) ==
    IF ~Exists(fs, Resolve(path)) \/ ~Exists(fs, Resolve(destination)) THEN "err"
    ELSE IF IsExcluded(path, destination) THEN "skip"
    ELSE IF IsDir(fs, Resolve(path)) THEN "dir"
    ELSE "file"

\* One entry of the history of a walk that started at `root`.
Visit(who, root, path, what) ==
    [who |-> who, root |-> Resolve(root), path |-> Resolve(path), what |-> what]

-----------------------------------------------------------------------------
(* copy_directory_recursive: the mirrored root and the two visitors.        *)

\* make_destination: the destination joined with the source's last component
\* when the source is absolute, and with the whole source when it is relative.
MakeDestination(source, destination) ==
    Join(destination,
         IF source.abs THEN StripPrefix(source, ParentOrRoot(source)) ELSE source)

\* The visitors' target: the entry re-rooted from the source's parent to the
\* destination.
Mirrored(source, destination, path) ==
    Join(destination, StripPrefix(path, ParentOrRoot(source)))

\* Mutant of Inc: the position advances by two.
IncTwice(b, no_progress_bar) ==
    IF no_progress_bar THEN b ELSE [b EXCEPT !.pos = @ + 2]

\* Lines 300-302: bar.inc(1) when progress is enabled.
Inc(b, no_progress_bar) ==
    IF no_progress_bar THEN b ELSE [b EXCEPT !.pos = @ + 1]

\* The file visitor, lines 247-249: with progress enabled the length of the
\* bar is set to the shared counter as loaded.
SetLength(b, no_progress_bar, size) ==
    IF no_progress_bar THEN b ELSE [b EXCEPT !.len = size]

\* The file visitor, lines 251-304: fs::copy and what follows.  Returns the
\* filesystem, the writes made, the progress bar and "Ok" or "Err".
OnFile(fs, source, destination, path, no_progress_bar, b) ==
    LET from == Resolve(path)
        to   == Resolve(Mirrored(source, destination, path))
        b2   == Inc(b, no_progress_bar)
        kind == CopyKind(fs, from, to)
        cp   == Op("copy", "on_file", from, to)
    IN  CASE kind = "Ok" ->
               [fs |-> CopyFile(fs, from, to), ops |-> <<cp>>, bar |-> b2, res |-> "Ok"]
          [] kind = "AlreadyExists" ->
               IF FileLen(fs, from) # FileLen(fs, to)
               THEN LET fs1 == RemoveFile(fs, to)
                        rm  == Op("remove_file", "on_file", to, to)
                    IN  IF CopyKind(fs1, from, to) = "Ok"
                        THEN [fs |-> CopyFile(fs1, from, to), ops |-> <<rm, cp>>,
                              bar |-> b2, res |-> "Ok"]
                        ELSE [fs |-> fs1, ops |-> <<rm>>, bar |-> b, res |-> "Err"]
               ELSE [fs |-> fs, ops |-> <<>>, bar |-> b2, res |-> "Ok"]
          [] OTHER ->
               [fs |-> fs, ops |-> <<>>, bar |-> b, res |-> "Err"]

\* The directory visitor: create the mirrored directory, tolerating
\* AlreadyExists.
OnDirectory(fs, source, destination, path) ==
    LET to   == Resolve(Mirrored(source, destination, path))
        kind == CreateDirKind(fs, to)
    IN  CASE kind = "Ok" ->
               [fs |-> CreateDir(fs, to),
                ops |-> <<Op("create_dir", "on_directory", to, to)>>, res |-> "Ok"]
          [] kind = "AlreadyExists" -> [fs |-> fs, ops |-> <<>>, res |-> "Ok"]
          [] OTHER -> [fs |-> fs, ops |-> <<>>, res |-> "Err"]

-----------------------------------------------------------------------------
(* The main thread.                                                         *)

CurFS == FS(dirs, files)

\* ProgressBar::new(100).
InitialLength == 100

Source == command.sources[idx]

Destination == command.destination

NoThread == [st |-> "none", stack |-> <<>>]

\* Mutant of Abort: the caller drops the error and goes on with the next entry.
AbortSkipsEntry(stk, mainpc) == [stack |-> stk, pc |-> mainpc]

\* An Err propagates with `?`: every visit_dir call on the stack returns it to
\* its caller, then copy_directory_recursive (line 327), then main (line 105).
Abort(stk, mainpc) == [stack |-> <<>>, pc |-> "err"]

\* A call of main fails: the Err(..) is built and handed up.  The process has
\* not ended yet: the counter threads run on until MainReturnErr.
Fail(err) ==
    /\ result' = err
    /\ pc' = Abort(stack, pc).pc
    /\ stack' = Abort(stack, pc).stack

\* main, lines 33-53: the default destination for "." with one source, and
\* the creation of a destination that does not exist.
MainStart ==
    /\ pc = "start"
    /\ LET dest == IF Destination = DotPath /\ Len(command.sources) = 1
                   THEN Join(Abs(Cwd), FileName(command.sources[1]))
                   ELSE Destination
           to   == Resolve(dest)
       IN  /\ command' = [command EXCEPT !.destination = dest]
           /\ IF Exists(CurFS, to)
              THEN /\ pc' = "count"
                   /\ UNCHANGED <<dirs, ops, result, stack>>
              ELSE IF CreateDirKind(CurFS, to) = "Ok"
              THEN /\ dirs' = CreateDir(CurFS, to).dirs
                   /\ ops' = Append(ops, Op("create_dir", "main", to, to))
                   /\ pc' = "count"
                   /\ UNCHANGED <<result, stack>>
              ELSE /\ Fail("ErrIo")
                   /\ UNCHANGED <<dirs, ops>>
    /\ UNCHANGED <<files, idx, make_destination, dir_content_size, bar, ctr,
                   visits, lastCall, before, argv, run>>

\* Mutant of Spawn: the thread is started whatever --no-progress says.
SpawnAlways(fs, source, no_progress_bar) ==
    IF IsDir(fs, Resolve(source))
    THEN [st |-> "run", stack |-> Call(fs, <<>>, source)]
    ELSE NoThread

\* The thread get_files_count_recursive starts for one source: with progress
\* enabled, a source that is a directory gets a thread running
\* visit_dir::<false>.
Spawn(fs, source, no_progress_bar) ==
    IF ~no_progress_bar /\ IsDir(fs, Resolve(source))
    THEN [st |-> "run", stack |-> Call(fs, <<>>, source)]
    ELSE NoThread

\* get_files_count_recursive: one detached thread per directory source.
get_files_count_recursive ==
    /\ pc = "count"
    /\ ctr' = [i \in DOMAIN command.sources |->
                 Spawn(CurFS, command.sources[i], command.no_progress_bar)]
    /\ pc' = "loop"
    /\ UNCHANGED <<dirs, files, command, idx, stack, make_destination, result,
                   dir_content_size, bar, ops, visits, lastCall, before, argv, run>>

InLoop == pc = "loop" /\ idx <= Len(command.sources)

BothExist == Exists(CurFS, Resolve(Source)) /\ Exists(CurFS, Resolve(Destination))

SameFile == Resolve(Source) = Resolve(Destination)

\* main, lines 74-81: a canonicalize fails.
LoopCanonicalizeErr ==
    /\ InLoop
    /\ ~BothExist
    /\ Fail("ErrIo")
    /\ lastCall' = 0
    /\ UNCHANGED <<dirs, files, command, idx, make_destination, dir_content_size,
                   bar, ctr, ops, visits, before, argv, run>>

\* main, lines 74-84: the source is the destination: skipped.
LoopSkipSelf ==
    /\ InLoop
    /\ BothExist
    /\ SameFile
    /\ idx' = idx + 1
    /\ lastCall' = 0
    /\ UNCHANGED <<dirs, files, command, pc, stack, make_destination, result,
                   dir_content_size, bar, ctr, ops, visits, before, argv, run>>

\* main, lines 86-96: a directory source without --recursive, or with a
\* destination that is no directory.
LoopConfigErr ==
    /\ InLoop
    /\ BothExist
    /\ ~SameFile
    /\ IsDir(CurFS, Resolve(Source))
    /\ ~command.recursive \/ ~IsDir(CurFS, Resolve(Destination))
    /\ Fail(IF ~command.recursive THEN "ErrNoRecursive" ELSE "ErrNotADirectory")
    /\ lastCall' = 0
    /\ UNCHANGED <<dirs, files, command, idx, make_destination, dir_content_size,
                   bar, ctr, ops, visits, before, argv, run>>

\* copy_directory_recursive, lines 208-230: create the mirrored root,
\* tolerating AlreadyExists, and call visit_dir::<true> on the source.
CopyDirStart ==
    /\ InLoop
    /\ BothExist
    /\ ~SameFile
    /\ IsDir(CurFS, Resolve(Source))
    /\ command.recursive
    /\ IsDir(CurFS, Resolve(Destination))
    /\ LET md   == MakeDestination(Source, Destination)
           to   == Resolve(md)
           kind == CreateDirKind(CurFS, to)
           fs1  == IF kind = "Ok" THEN CreateDir(CurFS, to) ELSE CurFS
       IN  /\ make_destination' = md
           /\ IF kind \in {"Ok", "AlreadyExists"}
              THEN /\ dirs' = fs1.dirs
                   /\ ops' = IF kind = "Ok"
                             THEN Append(ops, Op("create_dir", "make_destination", to, to))
                             ELSE ops
                   /\ stack' = Call(fs1, <<>>, Source)
                   /\ visits' = visits \cup {Visit(0, Source, Source, "enter")}
                   /\ pc' = "walk"
                   /\ UNCHANGED result
              ELSE /\ Fail("ErrIo")
                   /\ UNCHANGED <<dirs, ops, visits>>
    /\ lastCall' = 0
    /\ before' = CurFS
    /\ UNCHANGED <<files, command, idx, dir_content_size, bar, ctr, argv, run>>

\* The target of a plain-file source: inside the destination when that is a
\* directory, the destination itself otherwise.
PlainTarget(fs, source, destination) ==
    IF IsDir(fs, Resolve(destination)) THEN Join(destination, source) ELSE destination

\* main, lines 106-122: a plain-file source is copied with fs::copy.
CopyPlainFile ==
    /\ InLoop
    /\ BothExist
    /\ ~SameFile
    /\ ~IsDir(CurFS, Resolve(Source))
    /\ LET from == Resolve(Source)
           to   == Resolve(PlainTarget(CurFS, Source, Destination))
       IN  IF CopyKind(CurFS, from, to) = "Ok"
           THEN /\ files' = CopyFile(CurFS, from, to).files
                /\ ops' = Append(ops, Op("copy", "plain", from, to))
                /\ idx' = idx + 1
                /\ UNCHANGED <<pc, result, stack>>
           ELSE /\ Fail("ErrIo")
                /\ UNCHANGED <<files, ops, idx>>
    /\ lastCall' = 0
    /\ before' = CurFS
    /\ UNCHANGED <<dirs, command, make_destination, dir_content_size, bar, ctr,
                   visits, argv, run>>

\* main returns the Err(..): the report is printed and the process ends, and
\* with it the counter threads.
MainReturnErr ==
    /\ pc = "err"
    /\ pc' = "done"
    /\ UNCHANGED <<dirs, files, command, idx, stack, make_destination, result,
                   dir_content_size, bar, ctr, ops, visits, lastCall, before, argv, run>>

\* main, line 125: every source is done.
MainReturn ==
    /\ pc = "loop"
    /\ idx > Len(command.sources)
    /\ result' = "Ok"
    /\ pc' = "done"
    /\ UNCHANGED <<dirs, files, command, idx, stack, make_destination,
                   dir_content_size, bar, ctr, ops, visits, lastCall, before, argv, run>>

\* visit_dir::<true>, lines 135-163, for one entry of the listing: skip the
\* destination; create the mirror of a directory and recurse; hand a file to
\* the file visitor, which loads the shared counter into the bar (lines
\* 239-249) and is then about to call fs::copy.  The first error ends the walk.
CopyVisit ==
    /\ pc = "walk"
    /\ stack # <<>>
    /\ \E n \in Pending(CurFS, stack) :
         LET path == Join(Top(stack).dir, Rel(<<n>>))
             cls  == EntryClass(CurFS, path, Destination)
             rd   == OnDirectory(CurFS, Source, Destination, path)
         IN  CASE cls = "skip" ->
                    /\ stack' = Taken(stack, n)
                    /\ UNCHANGED <<dirs, ops, bar, visits, pc, result>>
               [] cls = "dir" /\ rd.res = "Ok" ->
                    /\ dirs' = rd.fs.dirs
                    /\ ops' = ops \o rd.ops
                    /\ stack' = Call(rd.fs, Taken(stack, n), path)
                    /\ visits' = visits \cup {Visit(0, Source, path, "dir"),
                                              Visit(0, Source, path, "enter")}
                    /\ UNCHANGED <<bar, pc, result>>
               [] cls = "file" ->
                    /\ stack' = Append(Taken(stack, n), VisitorCall(path))
                    /\ bar' = SetLength(bar, command.no_progress_bar, dir_content_size)
                    /\ visits' = visits \cup {Visit(0, Source, path, "file")}
                    /\ pc' = "copy"
                    /\ UNCHANGED <<dirs, ops, result>>
               [] OTHER ->
                    /\ Fail("ErrIo")
                    /\ visits' = IF cls = "err" THEN visits
                                 ELSE visits \cup {Visit(0, Source, path, cls)}
                    /\ UNCHANGED <<dirs, ops, bar>>
    /\ UNCHANGED <<files, command, idx, make_destination, dir_content_size, ctr,
                   lastCall, before, argv, run>>

\* The file visitor, lines 251-304: fs::copy of the entry it holds, then
\* bar.inc(1); an Err ends the walk.
CopyEntry ==
    /\ pc = "copy"
    /\ LET rf == OnFile(CurFS, Source, Destination, Top(stack).dir,
                        command.no_progress_bar, bar)
       IN  /\ files' = rf.fs.files
           /\ ops' = ops \o rf.ops
           /\ bar' = rf.bar
           /\ IF rf.res = "Ok"
              THEN /\ stack' = Front(stack)
                   /\ pc' = "walk"
                   /\ UNCHANGED result
              ELSE Fail("ErrIo")
    /\ UNCHANGED <<dirs, command, idx, make_destination, dir_content_size, ctr,
                   visits, lastCall, before, argv, run>>

\* The file visitor, lines 251-297: fs::copy returns Err for a reason outside
\* the model.  Either nothing was opened, or the target was opened and is
\* left truncated, written in part or written in full, which is a write of
\* main also where it restores the bytes the target held; the error ends the
\* walk and main, and nothing is undone.
CopyFail ==
    /\ pc = "copy"
    /\ LET from == Resolve(Top(stack).dir)
           to   == Resolve(Mirrored(Source, Destination, Top(stack).dir))
       IN  \E out \in FailedCopyOutcomes(CurFS, from, to) :
              /\ files' = out.files
              /\ \/ /\ out = CurFS
                    /\ ops' = ops
                 \/ /\ out \in FailedCopyWrites(CurFS, from, to)
                    /\ ops' = Append(ops, Op("copy_failed", "on_file", from, to))
    /\ Fail("ErrIo")
    /\ UNCHANGED <<dirs, command, idx, make_destination, dir_content_size, bar,
                   ctr, visits, lastCall, before, argv, run>>

\* visit_dir::<true>, lines 135-151: fs::read_dir, an entry of the listing or
\* a canonicalize returns Err for a reason outside the model (an I/O error, a
\* directory another process removed): the error ends the walk and main, and
\* nothing is undone.
WalkFail ==
    /\ pc = "walk"
    /\ stack # <<>>
    /\ Fail("ErrIo")
    /\ UNCHANGED <<dirs, files, command, idx, make_destination, dir_content_size,
                   bar, ctr, ops, visits, lastCall, before, argv, run>>

\* visit_dir::<true>, lines 164-166: a listing ends and the call returns Ok;
\* the outermost return is copy_directory_recursive's.
CopyReturn ==
    /\ pc = "walk"
    /\ stack = <<>> \/ Exhausted(CurFS, stack)
    /\ IF Len(stack) <= 1
       THEN /\ stack' = <<>>
            /\ pc' = "loop"
            /\ idx' = idx + 1
            /\ lastCall' = idx
       ELSE /\ stack' = Front(stack)
            /\ UNCHANGED <<pc, idx, lastCall>>
    /\ UNCHANGED <<dirs, files, command, make_destination, result, dir_content_size,
                   bar, ctr, ops, visits, before, argv, run>>

-----------------------------------------------------------------------------
(* The counter threads: visit_dir::<false> with the counting visitor.  A    *)
(* thread is detached; it dies with the process when main returns.          *)

Running(i) == pc # "done" /\ ctr[i].st = "run"

\* The thread's closure returns: visit_dir returned Ok.
Finished(t) == IF t.stack = <<>> THEN [t EXCEPT !.st = "done"] ELSE t

\* visit_dir::<false>, lines 135-163, for one entry: skip the destination,
\* recurse into a directory, fetch_add(1) for a file.  An Err is unwrapped:
\* the thread panics.
CountVisit(i) ==
    /\ Running(i)
    /\ ctr[i].stack # <<>>
    /\ \E n \in Pending(CurFS, ctr[i].stack) :
         LET stk  == ctr[i].stack
             path == Join(Top(stk).dir, Rel(<<n>>))
             cls  == EntryClass(CurFS, path, Destination)
         IN  /\ ctr' = [ctr EXCEPT ![i] =
                          CASE cls = "err"  -> [st |-> "panic", stack |-> <<>>]
                            [] cls = "dir"  -> [@ EXCEPT !.stack = Call(CurFS, Taken(stk, n), path)]
                            [] OTHER        -> [@ EXCEPT !.stack = Taken(stk, n)]]
             /\ dir_content_size' = IF cls = "file" THEN dir_content_size + 1
                                    ELSE dir_content_size
             /\ visits' = CASE cls = "dir"  -> visits \cup {Visit(i, command.sources[i], path, "enter")}
                            [] cls = "file" -> visits \cup {Visit(i, command.sources[i], path, "file")}
                            [] OTHER        -> visits
    /\ UNCHANGED <<dirs, files, command, pc, idx, stack, make_destination, result,
                   bar, ops, lastCall, before, argv, run>>

\* visit_dir::<false>, lines 164-166: a listing ends and the call returns.
CountReturn(i) ==
    /\ Running(i)
    /\ ctr[i].stack = <<>> \/ Exhausted(CurFS, ctr[i].stack)
    /\ ctr' = [ctr EXCEPT ![i] = Finished([@ EXCEPT !.stack = Front(@)])]
    /\ UNCHANGED <<dirs, files, command, pc, idx, stack, make_destination, result,
                   dir_content_size, bar, ops, visits, lastCall, before, argv, run>>

\* Mutant of Panic: the panic of a thread aborts the process.
PanicAborts(t, mainpc) == [thread |-> [st |-> "panic", stack |-> <<>>], pc |-> "done"]

\* What a panic of a counter thread does to the thread and to the process:
\* the thread ends, main goes on (thread::spawn, the handle dropped).
Panic(t, mainpc) == [thread |-> [st |-> "panic", stack |-> <<>>], pc |-> mainpc]

\* fs::read_dir, an entry of the listing or a canonicalize returns Err for a
\* reason outside the model (an I/O error, a directory another process
\* removed): .unwrap() panics the thread.
CountFail(i) ==
    /\ Running(i)
    /\ ctr[i].stack # <<>>
    /\ ctr' = [ctr EXCEPT ![i] = Panic(@, pc).thread]
    /\ pc' = Panic(ctr[i], pc).pc
    /\ UNCHANGED <<dirs, files, command, idx, stack, make_destination, result,
                   dir_content_size, bar, ops, visits, lastCall, before, argv, run>>

InitialBar == [pos |-> 0, len |-> InitialLength]

\* The user starts the program again, with the same command line, after a
\* run that returned Ok.
Rerun ==
    /\ pc = "done"
    /\ result = "Ok"
    /\ run < MaxRuns
    /\ run' = run + 1
    /\ command' = argv
    /\ pc' = "start"
    /\ idx' = 1
    /\ stack' = <<>>
    /\ make_destination' = DotPath
    /\ result' = "running"
    /\ dir_content_size' = 0
    /\ bar' = InitialBar
    /\ ctr' = [i \in DOMAIN argv.sources |-> NoThread]
    /\ ops' = <<>>
    /\ visits' = {}
    /\ lastCall' = 0
    /\ before' = CurFS
    /\ UNCHANGED <<dirs, files, argv>>

Main ==
    \/ MainStart
    \/ get_files_count_recursive
    \/ LoopCanonicalizeErr
    \/ LoopSkipSelf
    \/ LoopConfigErr
    \/ CopyDirStart
    \/ CopyPlainFile
    \/ CopyVisit
    \/ CopyEntry
    \/ CopyFail
    \/ WalkFail
    \/ CopyReturn
    \/ MainReturn
    \/ MainReturnErr

Next ==
    \/ Main
    \/ \E i \in DOMAIN ctr : CountVisit(i)
    \/ \E i \in DOMAIN ctr : CountReturn(i)
    \/ \E i \in DOMAIN ctr : CountFail(i)
    \/ Rerun

-----------------------------------------------------------------------------
(* The inputs: the filesystem at program start and the command line.        *)

Bytes == 1..MaxByte

\* File contents: every byte string of at most MaxLen bytes.
Contents == UNION {[1..n -> Bytes] : n \in 0..MaxLen}

FromPairs(S) == [a \in {x[1] : x \in S} |-> (CHOOSE x \in S : x[1] = a)[2]]

\* The source tree /a: a file f, a subdirectory s that holds a file g or is
\* empty; a plain file /p beside it.  The destination named by `nest` lies
\* inside the tree and holds a file h.
TreeDirs(nest) ==
    {<<>>, <<"a">>, <<"a", "s">>}
      \cup (IF nest = "shallow" THEN {<<"a", "d">>} ELSE {})
      \cup (IF nest = "deep" THEN {<<"a", "s", "d">>} ELSE {})

TreeFiles(hasG, nest) ==
    {<< <<"a", "f">>, <<1>> >>, << <<"p">>, <<2>> >>}
      \cup (IF hasG THEN {<< <<"a", "s", "g">>, <<2>> >>} ELSE {})
      \cup (IF nest = "shallow" THEN {<< <<"a", "d", "h">>, <<1>> >>} ELSE {})
      \cup (IF nest = "deep" THEN {<< <<"a", "s", "d", "h">>, <<1>> >>} ELSE {})

\* What is at /d: nothing, an empty directory, a plain file, a mirror of /a
\* from an earlier run whose f holds c, a directory in which the mirror of
\* /a/s is taken by a plain file, or a directory with an empty /d/a.
DestDirs(dk) ==
    CASE dk \in {"absent", "file"} -> {}
      [] dk = "empty"   -> {<<"d">>}
      [] dk = "mirror"  -> {<<"d">>, <<"d", "a">>, <<"d", "a", "s">>}
      [] dk \in {"blocked", "partial"} -> {<<"d">>, <<"d", "a">>}

DestFiles(dk, c) ==
    CASE dk \in {"absent", "empty", "partial"} -> {}
      [] dk = "file"    -> {<< <<"d">>, <<1>> >>}
      [] dk = "mirror"  -> {<< <<"d", "a", "f">>, c >>}
      [] dk = "blocked" -> {<< <<"d", "a", "s">>, <<1>> >>}

MkFS(hasG, nest, dk, c) ==
    FS(TreeDirs(nest) \cup DestDirs(dk),
       FromPairs(TreeFiles(hasG, nest) \cup DestFiles(dk, c)))

\* A source tree /b/b whose subdirectory has its parent's name, copied into
\* an ancestor.
OverlapFS ==
    FS({<<>>, <<"b">>, <<"b", "b">>, <<"b", "b", "b">>},
       FromPairs({<< <<"b", "b", "f">>, <<1>> >>, << <<"b", "b", "b", "f">>, <<2>> >>}))

DestKinds == {<<dk, <<>> >> : dk \in {"absent", "empty", "file", "blocked", "partial"}}
               \cup {<<"mirror", c>> : c \in Contents}

\* Source arguments: directories and plain files, absolute and relative,
\* and a path that does not exist.
SourceArgs ==
    {Abs(<<"a">>), Rel(<<"a">>), Rel(<<"a", "s">>), Abs(<<"p">>), Rel(<<"p">>),
     Abs(<<"n">>)}

SourceLists == UNION {[1..n -> SourceArgs] : n \in 1..MaxSources}

Cmd(srcs, dest, rec, noprog) ==
    [sources |-> srcs, destination |-> dest, recursive |-> rec,
     no_progress_bar |-> noprog]

\* Progress disabled; a destination beside the source tree.
InputsDisjoint ==
    {<<MkFS(hasG, "none", k[1], k[2]), Cmd(srcs, dest, rec, TRUE)>> :
        hasG \in BOOLEAN, k \in DestKinds, srcs \in SourceLists,
        dest \in {Abs(<<"d">>), Rel(<<"d">>)}, rec \in BOOLEAN}

\* Progress disabled; a destination inside the source tree, above it, or ".".
InputsNested ==
    {<<MkFS(TRUE, nest, "absent", <<>>), Cmd(<<src>>, dest, TRUE, TRUE)>> :
        nest \in {"shallow", "deep"},
        src \in {Abs(<<"a">>), Rel(<<"a">>), Abs(<<"a", "s">>), Rel(<<"a", "s">>),
                 Abs(<<"a", "f">>), Rel(<<"a", "f">>)},
        dest \in {Abs(<<"a", "d">>), Rel(<<"a", "d">>), Abs(<<"a", "s", "d">>),
                  Abs(<<"a">>), Abs(<<>>), DotPath}}

InputsOverlap ==
    {<<OverlapFS, Cmd(<<src>>, Abs(<<>>), TRUE, noprog)>> :
        src \in {Abs(<<"b", "b">>), Rel(<<"b", "b">>)}, noprog \in BOOLEAN}

\* Progress enabled: counter threads run beside the copy.  The destination
\* /a/s lies inside the source tree /a.
InputsProgress ==
    {<<MkFS(hasG, "none", k[1], k[2]), Cmd(srcs, dest, TRUE, FALSE)>> :
        hasG \in BOOLEAN,
        k \in {<<"empty", <<>> >>, <<"mirror", <<1>> >>},
        srcs \in {<<Abs(<<"a">>)>>, <<Rel(<<"a", "s">>)>>, <<Abs(<<"p">>)>>,
                  <<Abs(<<"p">>), Abs(<<"a">>)>>, <<Abs(<<"a">>), Abs(<<"a", "s">>)>>,
                  <<Abs(<<"d">>), Abs(<<"a">>)>>},
        dest \in {Abs(<<"d">>), Abs(<<"a", "s">>)}}

Inputs == InputsDisjoint \cup InputsNested \cup InputsOverlap \cup InputsProgress

Init ==
    \E in \in Inputs :
        /\ dirs = in[1].dirs
        /\ files = in[1].files
        /\ command = in[2]
        /\ pc = "start"
        /\ idx = 1
        /\ stack = <<>>
        /\ make_destination = DotPath
        /\ result = "running"
        /\ dir_content_size = 0
        /\ bar = InitialBar
        /\ ctr = [i \in DOMAIN in[2].sources |-> NoThread]
        /\ ops = <<>>
        /\ visits = {}
        /\ lastCall = 0
        /\ before = in[1]
        /\ argv = in[2]
        /\ run = 1

Spec == Init /\ [][Next]_vars

\* Every placement of the destination relative to a source tree: beside it,
\* inside it, equal to it, above it; progress disabled and enabled.
InputsPlacement ==
    InputsNested \cup InputsOverlap
      \cup {<<MkFS(TRUE, "none", dk, <<>>), Cmd(<<src>>, Abs(<<"d">>), rec, noprog)>> :
               dk \in {"absent", "empty", "file"},
               src \in {Abs(<<"a">>), Rel(<<"a", "s">>), Abs(<<"n">>)},
               rec \in BOOLEAN, noprog \in BOOLEAN}
      \cup {<<MkFS(TRUE, nest, "absent", <<>>), Cmd(<<Abs(<<"a">>)>>, dest, TRUE, FALSE)>> :
               nest \in {"shallow", "deep"},
               dest \in {Abs(<<"a", "d">>), Abs(<<"a">>), Abs(<<>>)}}

InitPlacement ==
    \E in \in InputsPlacement :
        /\ dirs = in[1].dirs
        /\ files = in[1].files
        /\ command = in[2]
        /\ pc = "start"
        /\ idx = 1
        /\ stack = <<>>
        /\ make_destination = DotPath
        /\ result = "running"
        /\ dir_content_size = 0
        /\ bar = InitialBar
        /\ ctr = [i \in DOMAIN in[2].sources |-> NoThread]
        /\ ops = <<>>
        /\ visits = {}
        /\ lastCall = 0
        /\ before = in[1]
        /\ argv = in[2]
        /\ run = 1

\* The main thread is an operating system thread of its own: it always gets
\* to take its next step.  Nothing is assumed about the counter threads.
FairSpec == InitPlacement /\ [][Next]_vars /\ WF_vars(Main)

-----------------------------------------------------------------------------
(* visit_dir on its own: one call visit_dir::<false>(root, exclude, f, None) *)
(* with the counting visitor, for any root and any exclude path: a          *)
(* directory, a plain file or a path that does not exist.  main only ever   *)
(* calls it on a directory it has just tested.                              *)

WalkRoots ==
    {Abs(<<"a">>), Rel(<<"a">>), Abs(<<"a", "s">>), Rel(<<"a", "s">>), Abs(<<"d">>),
     Abs(<<"p">>), Rel(<<"p">>), Abs(<<"a", "f">>), Abs(<<"n">>), Rel(<<"n", "m">>)}

WalkExcludes ==
    {Abs(<<"d">>), Abs(<<"a", "s">>), Rel(<<"a", "d">>), Abs(<<"a", "s", "d">>),
     Abs(<<"n">>), Abs(<<"p">>)}

InputsWalk ==
    {<<MkFS(hasG, nest, dk, <<>>), Cmd(<<root>>, exclude, TRUE, FALSE)>> :
        hasG \in BOOLEAN, nest \in {"none", "shallow", "deep"},
        dk \in {"absent", "empty", "mirror"},
        root \in WalkRoots, exclude \in WalkExcludes}

InitWalk ==
    \E in \in InputsWalk :
        /\ dirs = in[1].dirs
        /\ files = in[1].files
        /\ command = in[2]
        /\ pc = "call"
        /\ idx = 1
        /\ stack = <<>>
        /\ make_destination = DotPath
        /\ result = "running"
        /\ dir_content_size = 0
        /\ bar = InitialBar
        /\ ctr = <<NoThread>>
        /\ ops = <<>>
        /\ visits = {}
        /\ lastCall = 0
        /\ before = in[1]
        /\ argv = in[2]
        /\ run = 1

\* visit_dir, line 134: the call; a root that is no directory returns Ok.
VisitDirCall ==
    /\ pc = "call"
    /\ ctr[1] = NoThread
    /\ ctr' = <<Finished([st |-> "run", stack |-> Call(CurFS, <<>>, command.sources[1])])>>
    /\ UNCHANGED <<dirs, files, command, pc, idx, stack, make_destination, result,
                   dir_content_size, bar, ops, visits, lastCall, before, argv, run>>

NextWalk ==
    \/ VisitDirCall
    \/ CountVisit(1)
    \/ CountReturn(1)
    \/ CountFail(1)

SpecWalk == InitWalk /\ [][NextWalk]_vars

-----------------------------------------------------------------------------
(* The claims.                                                              *)

\* The canonical destination and the canonical root of source i.
DestRoot == Resolve(Destination)

SourceRoot(i) == Resolve(command.sources[i])

\* The mirrored location of a below the source root S, as the specification
\* defines it: the destination, the last segment of the source, and the path
\* of a relative to the source.
MirrorOf(S, a) == DestRoot \o <<Last(S)>> \o SubSeq(a, Len(S) + 1, Len(a))

\* The walk of the source tree S excludes a: the destination lies in the
\* tree, and a is the destination or below it.
Excluded(S, a) == IsPrefix(S, DestRoot) /\ IsPrefix(DestRoot, a)

\* The files and the subdirectories of the source tree S that the walk does
\* not exclude.
CopiedFiles(S) == {a \in DOMAIN before.files : IsPrefix(S, a) /\ ~Excluded(S, a)}

CopiedDirs(S) == {a \in before.dirs : IsPrefix(S, a) /\ a # S /\ ~Excluded(S, a)}

\* The writes the step appended to the history.
NewOps == SubSeq(ops', Len(ops) + 1, Len(ops'))

\* The step is the file visitor copying onto a file that exists.
Overwrites(o) ==
    /\ pc = "copy"
    /\ o.op = "copy"
    /\ o.by = "on_file"
    /\ IsFile(CurFS, o.to)

\* A walk that started at root has the destination strictly inside its tree.
Nested(root) == IsPrefix(root, DestRoot) /\ root # DestRoot

\* C1: when copy_directory_recursive has returned Ok, every file of the
\* source tree that is not excluded exists at its mirrored location under the
\* destination with the bytes the source file had when the copy began.
C1_FilesMirrored ==
    lastCall # 0 =>
        \A a \in CopiedFiles(SourceRoot(lastCall)) :
            /\ IsFile(CurFS, MirrorOf(SourceRoot(lastCall), a))
            /\ files[MirrorOf(SourceRoot(lastCall), a)] = before.files[a]

\* C2: in a second run of copy_directory_recursive with the same arguments
\* no byte of the filesystem changes, and a file whose mirrored destination
\* exists with the same size is skipped: the file visitor does not write to
\* it.
C2_SecondRunSkips ==
    [][(run = 2 /\ pc \in {"walk", "copy"}) =>
          /\ files' = files
          /\ \A k \in DOMAIN NewOps :
                ~(Overwrites(NewOps[k])
                    /\ FileLen(CurFS, NewOps[k].to) = FileLen(CurFS, NewOps[k].from))]_vars

\* C3: when the file visitor finds the mirrored destination present with
\* another size than the source, it deletes that file and then copies the
\* source, and the destination then holds the bytes of the source.
C3_DifferentSizeDeleted ==
    [][\A k \in DOMAIN NewOps :
          (Overwrites(NewOps[k])
              /\ FileLen(CurFS, NewOps[k].to) # FileLen(CurFS, NewOps[k].from))
          => /\ k > 1
             /\ NewOps[k - 1].op = "remove_file"
             /\ NewOps[k - 1].to = NewOps[k].to
             /\ files'[NewOps[k].to] = files[NewOps[k].from]]_vars

\* C4: a walk over a tree that holds the destination never enters the
\* destination and never hands the destination, or an entry below it, to the
\* file visitor or the directory visitor.
C4_DestinationNeverVisited ==
    \A v \in visits : Nested(v.root) => ~IsPrefix(DestRoot, v.path)

\* The copy of a tree has returned with the destination two levels or more
\* below the tree's root, files copied into the destination, and files in the
\* destination that were there before.
C4_Witness ==
    /\ lastCall # 0
    /\ Nested(SourceRoot(lastCall))
    /\ Len(DestRoot) >= Len(SourceRoot(lastCall)) + 2
    /\ \E k \in DOMAIN ops : ops[k].op = "copy" /\ IsPrefix(DestRoot, ops[k].to)
    /\ \E a \in DOMAIN before.files : IsPrefix(DestRoot, a)

\* C5: a directory source without --recursive fails with the configuration
\* error, and the run has written nothing to the filesystem.
C5_NoRecursiveNoWrites ==
    result = "ErrNoRecursive" => ops = <<>>

\* C6: the mirrored root that copy_directory_recursive creates is the
\* destination joined with the last segment of the source.
C6_MirroredRoot ==
    [][\A k \in DOMAIN NewOps :
          NewOps[k].by = "make_destination" =>
             NewOps[k].to = DestRoot \o <<Last(SourceRoot(idx))>>]_vars

\* C7: when copy_directory_recursive has returned Ok, every subdirectory of
\* the source tree that is not excluded has a directory at its mirrored path.
C7_DirsMirrored ==
    lastCall # 0 =>
        \A a \in CopiedDirs(SourceRoot(lastCall)) :
            IsDir(CurFS, MirrorOf(SourceRoot(lastCall), a))

\* C8: the panic of a counter thread changes nothing the main thread reads
\* or writes (the filesystem, the position in the copy, the result), and the
\* main thread can always take its next step: it never waits for a counter.
C8_CounterFailureIsolated ==
    /\ [][(\E i \in DOMAIN ctr : ctr[i].st = "run" /\ ctr'[i].st = "panic")
            => UNCHANGED <<dirs, files, command, pc, idx, stack, make_destination,
                           result, bar, ops, lastCall>>]_vars
    /\ [](pc # "done" => ENABLED Main)

\* The run ended Ok with files copied although a counter thread had panicked.
C8_Witness ==
    /\ pc = "done"
    /\ result = "Ok"
    /\ \E i \in DOMAIN ctr : ctr[i].st = "panic"
    /\ \E k \in DOMAIN ops : ops[k].by = "on_file"

\* C9: with --no-progress no counter thread exists, the shared counter stays
\* 0 and the progress bar keeps its initial position and length; and what
\* the file visitor does to the filesystem, what it writes and what it
\* returns are the same with progress disabled and enabled.
C9_NoProgress ==
    /\ command.no_progress_bar =>
          /\ dir_content_size = 0
          /\ bar = InitialBar
          /\ \A i \in DOMAIN ctr : ctr[i] = NoThread
    /\ pc = "copy" =>
          LET off == OnFile(CurFS, Source, Destination, Top(stack).dir, TRUE, bar)
              on  == OnFile(CurFS, Source, Destination, Top(stack).dir, FALSE, bar)
          IN  /\ off.fs = on.fs
              /\ off.ops = on.ops
              /\ off.res = on.res

\* A run with --no-progress ended Ok after the file visitor copied a file.
C9_Witness ==
    /\ command.no_progress_bar
    /\ pc = "done"
    /\ result = "Ok"
    /\ \E k \in DOMAIN ops : ops[k].by = "on_file"

\* C10: a plain-file source is copied to a target directly inside the
\* destination when that is a directory, and to the destination itself
\* otherwise; the target is not the source, and the source keeps its bytes.
C10_PlainFileTarget ==
    [][\A k \in DOMAIN NewOps :
          NewOps[k].by = "plain" =>
             /\ IF IsDir(CurFS, DestRoot)
                THEN Front(NewOps[k].to) = DestRoot
                ELSE NewOps[k].to = DestRoot
             /\ NewOps[k].to # NewOps[k].from
             /\ files'[NewOps[k].from] = files[NewOps[k].from]]_vars

\* The filesystem writes of the run are in place: what was created, copied
\* or written in part is still there.
InPlace(o) ==
    CASE o.op = "create_dir" -> IsDir(CurFS, o.to)
      [] o.op \in {"copy", "copy_failed"} -> IsFile(CurFS, o.to)
      [] OTHER -> TRUE

\* The entries the walk of the copy has visited.
CopyVisits(vs) == {v \in vs : v.who = 0}

\* The step undoes nothing: no directory and no file is removed, and a file
\* changes its bytes only as the target of a write the step itself makes.
NothingUndone ==
    /\ dirs \subseteq dirs'
    /\ DOMAIN files \subseteq DOMAIN files'
    /\ \A a \in DOMAIN files :
          files'[a] # files[a] => \E k \in DOMAIN NewOps : NewOps[k].to = a

\* C11: the first failure in visit_dir ends the whole walk.  The failing step
\* unwinds every recursion level and gives main its one error; it creates no
\* directory and reports no copy as made, and the one file it can touch is the
\* target of the fs::copy that failed.  After it the walk of the copy visits
\* no entry, no visitor of the copy runs and nothing is written; a counter
\* thread whose walk failed takes no further step.  No step of a run undoes a
\* write (no rollback): what was written before the failure stays in place.
C11_FirstFailureAborts ==
    /\ [][(pc \in {"walk", "copy"} /\ result' # "running") =>
             /\ stack' = <<>>
             /\ pc' = "err"
             /\ result' = "ErrIo"
             /\ dirs' = dirs
             /\ \A k \in DOMAIN NewOps :
                   /\ pc = "copy"
                   /\ NewOps[k].op = "copy_failed"
                   /\ NewOps[k].from = Resolve(Top(stack).dir)]_vars
    /\ [][result \notin {"running", "Ok"} =>
             /\ UNCHANGED <<dirs, files, ops, stack, result, bar>>
             /\ CopyVisits(visits') = CopyVisits(visits)
             /\ pc' \in {"err", "done"}]_vars
    /\ [][\A i \in DOMAIN ctr :
             (ctr[i].st = "panic" /\ run' = run) => ctr'[i] = ctr[i]]_vars
    /\ [][run' = run => NothingUndone]_vars
    /\ [](\A k \in DOMAIN ops : InPlace(ops[k]))

\* A walk failed two levels deep in an fs::copy that had opened its target, after the file visitor had copied a file and with a file
\* of the tree not yet visited.
C11_Witness ==
    /\ pc = "done"
    /\ result = "ErrIo"
    /\ \E k \in DOMAIN ops : ops[k].op = "copy"
    /\ ops[Len(ops)].op = "copy_failed"
    /\ Len(ops[Len(ops)].from) >= Len(SourceRoot(idx)) + 2
    /\ \E v \in visits : v.who = 0 /\ v.what = "enter" /\ v.path # v.root
    /\ \E a \in DOMAIN files :
          /\ IsPrefix(SourceRoot(idx), a)
          /\ ~Excluded(SourceRoot(idx), a)
          /\ \A v \in visits : ~(v.who = 0 /\ v.path = a)

\* C12: visit_dir called with a root that does not exist or is not a
\* directory returns Ok at once: no listing is opened, so no entry is visited,
\* the visitor is never invoked, no read_dir or canonicalize can fail (also
\* when the exclude path does not exist), and the call has not failed.
C12_NonDirectoryRootIsNoOp ==
    (~IsDir(CurFS, SourceRoot(1)) /\ ctr[1] # NoThread) =>
        /\ ctr[1] = [st |-> "done", stack |-> <<>>]
        /\ visits = {}
        /\ dir_content_size = 0
        /\ ~ENABLED CountFail(1)
        /\ ~ENABLED CountVisit(1)

\* visit_dir returned Ok for a root that is a plain file, with an exclude
\* path that does not exist.
C12_Witness ==
    /\ pc = "call"
    /\ IsFile(CurFS, SourceRoot(1))
    /\ ~Exists(CurFS, DestRoot)
    /\ ctr[1].st = "done"

\* C13: whenever the file visitor of the copy is handed a file, the parent of
\* the file's mirrored destination path is a directory at that moment.
C13_ParentExists ==
    [][\A v \in visits' \ visits :
          (v.who = 0 /\ v.what = "file") =>
             IsDir(CurFS, Front(MirrorOf(SourceRoot(idx), v.path)))]_vars

\* The number of files under the source tree S outside the excluded
\* destination.
FilesOutsideDestination(S) ==
    Cardinality({a \in DOMAIN files : IsPrefix(S, a) /\ ~Excluded(S, a)})

\* The sum of those numbers over the directory sources 1..i.
RECURSIVE ExpectedCount(_)
ExpectedCount(i) ==
    IF i = 0 THEN 0
    ELSE ExpectedCount(i - 1)
           + (IF IsDir(CurFS, SourceRoot(i)) THEN FilesOutsideDestination(SourceRoot(i))
              ELSE 0)

\* Every counter thread has finished without a failure, at least one ran, and
\* the filesystem is as it was when the threads were started: the run has
\* written nothing since.
AllCounted ==
    /\ pc \in {"loop", "walk", "copy"}
    /\ \A i \in DOMAIN ctr : ctr[i].st \in {"none", "done"}
    /\ \E i \in DOMAIN ctr : ctr[i].st = "done"
    /\ \A k \in DOMAIN ops : ops[k].by = "main"

\* C14: within a run the shared counter never decreases; it changes only in
\* a step of a counter thread that hands one file to the counting visitor,
\* and then by exactly one, while the main thread leaves it alone; and once
\* every counter thread has finished without failure on an unchanged
\* filesystem it equals the sum, over the directory sources, of the files
\* under the source outside the excluded destination.
C14_CounterExact ==
    /\ [][run' = run => dir_content_size' >= dir_content_size]_vars
    /\ [][(run' = run /\ dir_content_size' # dir_content_size) =>
             /\ dir_content_size' = dir_content_size + 1
             /\ \E i \in DOMAIN ctr :
                   /\ ctr'[i] # ctr[i]
                   /\ \E v \in visits' \ visits : v.who = i /\ v.what = "file"
             /\ UNCHANGED <<dirs, files, pc, idx, stack, bar, ops, result>>]_vars
    /\ [](AllCounted => dir_content_size = ExpectedCount(Len(command.sources)))

Completed == {k \in DOMAIN ops : ops[k].by = "on_file" /\ ops[k].op = "copy"}

\* C16: with progress enabled the position of the progress bar changes only
\* in a step in which the file visitor completes a file without error, and
\* then by exactly one: a directory, an excluded entry, a failed copy and a
\* plain-file source leave it alone; so the position always equals the number
\* of files the copy has completed in the run.
C16_PositionCountsFiles ==
    /\ [][(run' = run /\ bar'.pos # bar.pos) =>
             /\ ~command.no_progress_bar
             /\ pc = "copy"
             /\ result' = "running"
             /\ bar'.pos = bar.pos + 1
             /\ Len(ops') = Len(ops) + 1
             /\ NewOps[1].by = "on_file"
             /\ NewOps[1].op = "copy"]_vars
    /\ [](~command.no_progress_bar => bar.pos = Cardinality(Completed))

\* A run with progress ended Ok after it copied a plain-file source, skipped
\* the destination inside a source tree and copied a file of that tree.
C16_Witness ==
    /\ ~command.no_progress_bar
    /\ pc = "done"
    /\ result = "Ok"
    /\ bar.pos >= 1
    /\ \E k \in DOMAIN ops : ops[k].by = "plain"
    /\ \E i \in DOMAIN command.sources : Nested(SourceRoot(i))

\* The path a is a file of a source: a plain-file source itself, or a file
\* below a directory source outside the excluded destination.
SourceFile(a) ==
    /\ IsFile(CurFS, a)
    /\ \E i \in DOMAIN command.sources :
          IsPrefix(SourceRoot(i), a) /\ ~Excluded(SourceRoot(i), a)

\* C17: no step of the run copies onto or removes a file of a source, and
\* every file of a source keeps its bytes.
C17_SourcesUntouched ==
    [][\A k \in DOMAIN NewOps :
          NewOps[k].op \in {"copy", "remove_file"} =>
             /\ ~SourceFile(NewOps[k].to)
             /\ \A a \in DOMAIN files : SourceFile(a) => files'[a] = files[a]]_vars

\* C18: with progress enabled, when main has returned Ok and every counter
\* thread had finished without failure, the shared counter equals the
\* position of the progress bar: as many files were counted as were copied.
C18_CountedEqualsCopied ==
    (/\ ~command.no_progress_bar
     /\ pc = "done"
     /\ result = "Ok"
     /\ \A i \in DOMAIN ctr : ctr[i].st \in {"none", "done"})
        => dir_content_size = bar.pos

====
